---- MODULE Spec2Model ----
(***************************************************************************)
(* amalgemate: a gateway in front of several prioritised RubyGems          *)
(* repositories.  The model covers depQuery / loadDependencies /           *)
(* mergeDependencies (deps.go, the concurrent variant), updateGemDir and   *)
(* the two HTTP handlers of main.go.                                       *)
(*                                                                         *)
(* Every request is served by its own goroutine (net/http); a request slot *)
(* r \in Reqs is one such goroutine.  A slot of kind "call" is depQuery    *)
(* invoked on its own with an arbitrary name list (the handler never       *)
(* passes an empty list).                                                  *)
(***************************************************************************)
EXTENDS Integers, Sequences, FiniteSets, TLC

----------------------------------------------------------------------------
(* Bounds *)

\* longest record list one upstream answer carries
MaxLen == 1
\* the goroutines serving requests: those of ApiReqs serve dependency queries,
\* those of GemReqs serve /gems/ downloads, each one request after the other
ApiReqs == {1}

GemReqs == {2}

Reqs == ApiReqs \cup GemReqs

----------------------------------------------------------------------------
(* Configuration and data *)

\* reposFlag: the configured repositories, index 1 is the highest priority
reposFlag == <<"http://a/", "http://b/">>

N == Len(reposFlag)

Idx == 1..N

\* a nil *url.URL, as fmt prints it with %s
NilRepo == "<nil>"

\* a nil error
NilErr == "nil"

\* what an upstream can hold, as decoded from the wire (repo not yet set)
Gems ==
    { [Name |-> "a", Version |-> "1", Platform |-> "x",    Dependencies |-> << <<"b", ">= 0">> >>],
      [Name |-> "b", Version |-> "1", Platform |-> "ruby", Dependencies |-> <<>>] }

\* the name lists a client asks for (<<>> is the empty gems parameter)
NameLists == { <<>>, <<"a">>, <<"a", "b">> }

\* the identities a client asks /gems/<identity>.gem for
PathIds == { "a-1-x", "b-1", "c-2" }

Range(s) == { s[k] : k \in DOMAIN s }

SeqsUpTo(S, n) == UNION { [1..k -> S] : k \in 0..n }

\* gemInfo.ident
ident(g) ==
    LET suffix == IF g.Platform # "ruby" THEN "-" \o g.Platform ELSE ""
    IN  g.Name \o "-" \o g.Version \o suffix

\* mergeList without the seen check: every record is appended
RECURSIVE mergeListKeepAll(_, _, _)
mergeListKeepAll(rdeps, merged, seen) ==
    IF rdeps = <<>> THEN [merged |-> merged, seen |-> seen]
    ELSE mergeListKeepAll(Tail(rdeps), Append(merged, Head(rdeps)),
                          seen \cup {ident(Head(rdeps))})

\* mergeDependencies, inner loop: one repository's list appended to merged,
\* skipping each record whose ident is already in seen
RECURSIVE mergeList(_, _, _)
mergeList(rdeps, merged, seen) ==
    IF rdeps = <<>> THEN [merged |-> merged, seen |-> seen]
    ELSE LET dep == Head(rdeps)
         IN  IF ident(dep) \in seen
             THEN mergeList(Tail(rdeps), merged, seen)
             ELSE mergeList(Tail(rdeps), Append(merged, dep), seen \cup {ident(dep)})

\* mergeFrom with a seen set that starts empty for every repository
RECURSIVE mergeFromFreshSeen(_, _, _)
mergeFromFreshSeen(deps, merged, seen) ==
    IF deps = <<>> THEN merged
    ELSE LET st == mergeList(Head(deps), merged, {})
         IN  mergeFromFreshSeen(Tail(deps), st.merged, st.seen)

\* mergeDependencies, outer loop over the slots in index order
RECURSIVE mergeFrom(_, _, _)
mergeFrom(deps, merged, seen) ==
    IF deps = <<>> THEN merged
    ELSE LET st == mergeList(Head(deps), merged, seen)
         IN  mergeFrom(Tail(deps), st.merged, st.seen)

mergeDependencies(deps) == mergeFrom(deps, <<>>, {})

\* gemDirKey without the platform suffix
gemDirKeyBare(dep) == dep.Name \o "-" \o dep.Version

\* the key updateGemDir writes a record under
gemDirKey(dep) ==
    LET suffix == IF dep.Platform # "ruby" THEN "-" \o dep.Platform ELSE ""
    IN  dep.Name \o "-" \o dep.Version \o suffix

\* an assignment that replaces the map by the one new entry
MapSetOnly(m, key, repo) == [k \in {key} |-> repo]

\* gemDir[key] = repo on a Go map
MapSet(m, key, repo) ==
    [k \in DOMAIN m \cup {key} |-> IF k = key THEN repo ELSE m[k]]

\* loadDependencies: results[i].repo = repo for every decoded record
SetRepo(results, repo) ==
    [k \in 1..Len(results) |->
        [repo |-> repo, Name |-> results[k].Name, Version |-> results[k].Version,
         Platform |-> results[k].Platform, Dependencies |-> results[k].Dependencies]]

\* strings.Join(gems, ",")
RECURSIVE Join(_)
Join(names) ==
    IF names = <<>> THEN ""
    ELSE IF Len(names) = 1 THEN names[1]
    ELSE names[1] \o "," \o Join(Tail(names))

\* strings.Split(gems, ",") of a joined list: never empty, "" gives one empty name
Split(param) ==
    IF param = "" THEN <<"">>
    ELSE CHOOSE names \in NameLists : names # <<>> /\ Join(names) = param

\* a lookup under the untrimmed file name
TrimSuffixNone(gem) == gem

\* strings.TrimSuffix(gem, ".gem")
TrimSuffix(gem) ==
    IF \E id \in PathIds : id \o ".gem" = gem
    THEN CHOOSE id \in PathIds : id \o ".gem" = gem
    ELSE gem

\* the bodies an upstream may answer a query for the names gems with
\* (a body is either a well-formed Marshal array of records or not)
GarbageBody == [valid |-> FALSE, items |-> <<>>]

Bodies(gems) ==
    { [valid |-> TRUE, items |-> s] :
        s \in SeqsUpTo({ g \in Gems : g.Name \in Range(gems) }, MaxLen) }
    \cup {GarbageBody}

\* rmarsh Decoder.Decode(&results)
Decode(body) ==
    IF body.valid THEN [results |-> body.items, err |-> NilErr]
    ELSE [results |-> <<>>, err |-> "decode"]

HTTPStatus == {200, 500}

\* what http.Get against repo for the names gems can come back with: a
\* transport failure, or a response of any status with any body
Upstream(repo, gems) ==
    { [failed |-> TRUE, status |-> 0, body |-> GarbageBody] }
    \cup { [failed |-> FALSE, status |-> st, body |-> b] :
              st \in HTTPStatus, b \in Bodies(gems) }

\* upstreams with fixed content that always answer: what each repository holds
Holds(repo) ==
    LET ga == CHOOSE g \in Gems : g.Name = "a"
        gb == CHOOSE g \in Gems : g.Name = "b"
    IN  IF repo = reposFlag[1] THEN <<ga>> ELSE <<ga, gb>>

Answer(repo, gems) ==
    LET Wanted(g) == g.Name \in Range(gems)
    IN  SelectSeq(Holds(repo), Wanted)

FixedUpstream(repo, gems) ==
    { [failed |-> FALSE, status |-> 200,
       body |-> [valid |-> TRUE, items |-> Answer(repo, gems)]] }

\* the same upstreams when any request to them may also fail in transport
FlakyUpstream(repo, gems) ==
    FixedUpstream(repo, gems)
    \cup { [failed |-> TRUE, status |-> 0, body |-> GarbageBody] }

\* http.ResponseWriter: header is the Location set on the header map, sent the
\* Location that went out with the status line, calls the codes WriteHeader
\* was called with.  The first WriteHeader fixes status and sent headers,
\* later ones are ignored.
NewWriter ==
    [wroteHeader |-> FALSE, status |-> 0, header |-> "", sent |-> "",
     calls |-> <<>>, body |-> <<>>]

WriteHeader(w, code) ==
    IF w.wroteHeader THEN [w EXCEPT !.calls = Append(w.calls, code)]
    ELSE [w EXCEPT !.wroteHeader = TRUE, !.status = code, !.sent = w.header,
                   !.calls = Append(w.calls, code)]

\* w.Write: sends the header with 200 first when none was written
Write(w, chunk) ==
    LET w1 == IF w.wroteHeader THEN w
              ELSE [w EXCEPT !.wroteHeader = TRUE, !.status = 200, !.sent = w.header]
    IN  [w1 EXCEPT !.body = Append(w1.body, chunk)]

\* http.Error(w, msg, code)
HttpError(w, msg, code) == Write(WriteHeader(w, code), <<"text", msg>>)

\* http.Redirect(w, r, url, code) for a GET request
Redirect(w, url, code) ==
    Write(WriteHeader([w EXCEPT !.header = url], code), <<"html", url>>)

\* the dependencyItem the handler builds from one gemInfo
dependencyItem(item) ==
    [name |-> item.Name, number |-> item.Version, platform |-> item.Platform,
     dependencies |-> item.Dependencies]

\* rmarsh.NewEncoder(w).Encode(resp)
Encode(w, result) ==
    Write(w, <<"marshal", [k \in 1..Len(result) |-> dependencyItem(result[k])]>>)

----------------------------------------------------------------------------
(* State *)

VARIABLES
    gemDir,      \* the Directory Cache: identity -> repository
    gemDirLock,  \* the RWMutex: its writer (0: none) and its readers
    h,           \* per request: the handler's frame
    q,           \* per request: the depQuery frame
    t            \* per request and repository index: the goroutine's frame

vars == <<gemDir, gemDirLock, h, q, t>>

IdleH ==
    [kind |-> "idle", pc |-> "idle", gems |-> "", gem |-> "",
     repo |-> NilRepo, found |-> FALSE, w |-> NewWriter]

IdleQ ==
    [pc |-> "off", gems |-> <<>>, i |-> 0, repo |-> NilRepo,
     all |-> [j \in Idx |-> <<>>], repoErr |-> NilErr, mu |-> 0, wg |-> 0,
     deps |-> <<>>, k |-> 0, ret |-> [deps |-> <<>>, err |-> NilErr]]

IdleT ==
    [pc |-> "off", repo |-> NilRepo, res |-> [status |-> 0, body |-> GarbageBody],
     deps |-> <<>>, err |-> NilErr]

Init ==
    /\ gemDir = <<>>
    /\ gemDirLock = [writer |-> 0, readers |-> {}]
    /\ h = [r \in Reqs |-> IdleH]
    /\ q = [r \in Reqs |-> IdleQ]
    /\ t = [r \in Reqs |-> [j \in Idx |-> IdleT]]

----------------------------------------------------------------------------
(* depQuery *)

\* entry of depQuery(gems): the locals wg, mu, all, repoErr
EnterDepQuery(gems) ==
    [IdleQ EXCEPT !.pc = "loop", !.gems = gems, !.i = 1]

\* one iteration of `for i, repo := range reposFlag`: the loop variable repo
\* (one variable for the whole loop) is assigned, wg.Add(1), goroutine i starts
DqLoop(r) ==
    /\ q[r].pc = "loop"
    /\ LET i == q[r].i
       IN  /\ q' = [q EXCEPT ![r].repo = reposFlag[i],
                             ![r].wg = q[r].wg + 1,
                             ![r].i = i + 1,
                             ![r].pc = IF i = N THEN "wait" ELSE "loop"]
           /\ t' = [t EXCEPT ![r][i].pc = "get"]
    /\ UNCHANGED <<gemDir, gemDirLock, h>>

\* goroutine i, loadDependencies(gems, repo): repo is the closure's view of the
\* loop variable at this moment; http.Get fails or yields a response (up
\* names the upstreams: "any", "fixed" or "flaky")
TaskGet(r, i, up) ==
    /\ t[r][i].pc = "get"
    /\ LET repo == q[r].repo
           outcomes == CASE up = "fixed" -> FixedUpstream(repo, q[r].gems)
                         [] up = "flaky" -> FlakyUpstream(repo, q[r].gems)
                         [] OTHER        -> Upstream(repo, q[r].gems)
       IN  \E o \in outcomes :
             t' = IF o.failed
                  THEN [t EXCEPT ![r][i].repo = repo,
                                 ![r][i].err = "Get " \o repo,
                                 ![r][i].pc = "lock"]
                  ELSE [t EXCEPT ![r][i].repo = repo,
                                 ![r][i].res = [status |-> o.status, body |-> o.body],
                                 ![r][i].pc = "decode"]
    /\ UNCHANGED <<gemDir, gemDirLock, h, q>>

\* loadDependencies after http.Get: decode the body, tag the records
TaskDecode(r, i) ==
    /\ t[r][i].pc = "decode"
    /\ LET d == Decode(t[r][i].res.body)
       IN  t' = [t EXCEPT ![r][i].res = IdleT.res,
                          ![r][i].pc = "lock",
                          ![r][i].err = d.err,
                          ![r][i].deps = IF d.err # NilErr THEN <<>>
                                         ELSE SetRepo(d.results, t[r][i].repo)]
    /\ UNCHANGED <<gemDir, gemDirLock, h, q>>

\* mu.Lock()
TaskLock(r, i) ==
    /\ t[r][i].pc = "lock"
    /\ q[r].mu = 0
    /\ q' = [q EXCEPT ![r].mu = i]
    /\ t' = [t EXCEPT ![r][i].pc = "crit"]
    /\ UNCHANGED <<gemDir, gemDirLock, h>>

\* TaskStore that records the error of every failing goroutine
TaskStoreLastErr(r, i) ==
    /\ t[r][i].pc = "crit"
    /\ q' = IF t[r][i].err # NilErr
            THEN [q EXCEPT ![r].repoErr = t[r][i].err]
            ELSE [q EXCEPT ![r].all[i] = t[r][i].deps]
    /\ t' = [t EXCEPT ![r][i].pc = "unlock"]
    /\ UNCHANGED <<gemDir, gemDirLock, h>>

\* TaskStore when all and repoErr are one pair of variables for every call
TaskStoreShared(r, i) ==
    /\ t[r][i].pc = "crit"
    /\ q' = [s \in DOMAIN q |->
                IF t[r][i].err # NilErr
                THEN IF q[s].repoErr = NilErr
                     THEN [q[s] EXCEPT !.repoErr = t[r][i].err]
                     ELSE q[s]
                ELSE [q[s] EXCEPT !.all[i] = t[r][i].deps]]
    /\ t' = [t EXCEPT ![r][i].pc = "unlock"]
    /\ UNCHANGED <<gemDir, gemDirLock, h>>

\* the section under mu: record the first error, or fill slot i
TaskStore(r, i) ==
    /\ t[r][i].pc = "crit"
    /\ q' = IF t[r][i].err # NilErr
            THEN IF q[r].repoErr = NilErr
                 THEN [q EXCEPT ![r].repoErr = t[r][i].err]
                 ELSE q
            ELSE [q EXCEPT ![r].all[i] = t[r][i].deps]
    /\ t' = [t EXCEPT ![r][i].pc = "unlock"]
    /\ UNCHANGED <<gemDir, gemDirLock, h>>

\* TaskUnlock when only the success branch releases mu
TaskUnlockOkOnly(r, i) ==
    /\ t[r][i].pc = "unlock"
    /\ q' = IF t[r][i].err = NilErr THEN [q EXCEPT ![r].mu = 0] ELSE q
    /\ t' = [t EXCEPT ![r][i].pc = "done"]
    /\ UNCHANGED <<gemDir, gemDirLock, h>>

\* mu.Unlock()
TaskUnlock(r, i) ==
    /\ t[r][i].pc = "unlock"
    /\ q' = [q EXCEPT ![r].mu = 0]
    /\ t' = [t EXCEPT ![r][i].pc = "done"]
    /\ UNCHANGED <<gemDir, gemDirLock, h>>

\* wg.Done(), the goroutine ends
TaskDone(r, i) ==
    /\ t[r][i].pc = "done"
    /\ q' = [q EXCEPT ![r].wg = q[r].wg - 1]
    /\ t' = [t EXCEPT ![r][i].pc = "fin"]
    /\ UNCHANGED <<gemDir, gemDirLock, h>>

\* DqWait that does not wait for the goroutines
DqWaitNoJoin(r) ==
    /\ q[r].pc = "wait"
    /\ q' = IF q[r].repoErr # NilErr
            THEN [q EXCEPT ![r].pc = "ret",
                           ![r].ret = [deps |-> <<>>, err |-> q[r].repoErr]]
            ELSE [q EXCEPT ![r].pc = "merge"]
    /\ UNCHANGED <<gemDir, gemDirLock, h, t>>

\* DqWait that goes on to merge whatever repoErr holds
DqWaitIgnoreErr(r) ==
    /\ q[r].pc = "wait"
    /\ q[r].wg = 0
    /\ q' = [q EXCEPT ![r].pc = "merge"]
    /\ UNCHANGED <<gemDir, gemDirLock, h, t>>

\* wg.Wait() returns; if repoErr != nil { return nil, repoErr }
DqWait(r) ==
    /\ q[r].pc = "wait"
    /\ q[r].wg = 0
    /\ q' = IF q[r].repoErr # NilErr
            THEN [q EXCEPT ![r].pc = "ret",
                           ![r].ret = [deps |-> <<>>, err |-> q[r].repoErr]]
            ELSE [q EXCEPT ![r].pc = "merge"]
    /\ UNCHANGED <<gemDir, gemDirLock, h, t>>

\* deps := mergeDependencies(all)
DqMerge(r) ==
    /\ q[r].pc = "merge"
    /\ q' = [q EXCEPT ![r].deps = mergeDependencies(q[r].all), ![r].pc = "update"]
    /\ UNCHANGED <<gemDir, gemDirLock, h, t>>

\* UpdateLock that does not wait for the lock to be free
UpdateLockNoWait(r) ==
    /\ q[r].pc = "update"
    /\ gemDirLock' = [gemDirLock EXCEPT !.writer = r]
    /\ q' = [q EXCEPT ![r].pc = "write", ![r].k = 1]
    /\ UNCHANGED <<gemDir, h, t>>

\* updateGemDir: gemDirLock.Lock()
UpdateLock(r) ==
    /\ q[r].pc = "update"
    /\ gemDirLock.writer = 0
    /\ gemDirLock.readers = {}
    /\ gemDirLock' = [gemDirLock EXCEPT !.writer = r]
    /\ q' = [q EXCEPT ![r].pc = "write", ![r].k = 1]
    /\ UNCHANGED <<gemDir, h, t>>

\* UpdateWrite that keeps the mapping a key already has
UpdateWriteIfAbsent(r) ==
    /\ q[r].pc = "write"
    /\ q[r].k <= Len(q[r].deps)
    /\ LET dep == q[r].deps[q[r].k]
       IN  gemDir' = IF gemDirKey(dep) \in DOMAIN gemDir THEN gemDir
                     ELSE MapSet(gemDir, gemDirKey(dep), dep.repo)
    /\ q' = [q EXCEPT ![r].k = q[r].k + 1]
    /\ UNCHANGED <<gemDirLock, h, t>>

\* updateGemDir: one iteration of the loop over deps
UpdateWrite(r) ==
    /\ q[r].pc = "write"
    /\ q[r].k <= Len(q[r].deps)
    /\ LET dep == q[r].deps[q[r].k]
       IN  gemDir' = MapSet(gemDir, gemDirKey(dep), dep.repo)
    /\ q' = [q EXCEPT ![r].k = q[r].k + 1]
    /\ UNCHANGED <<gemDirLock, h, t>>

\* updateGemDir: the deferred gemDirLock.Unlock(); return deps, nil
UpdateUnlock(r) ==
    /\ q[r].pc = "write"
    /\ q[r].k > Len(q[r].deps)
    /\ gemDirLock' = [gemDirLock EXCEPT !.writer = 0]
    /\ q' = [q EXCEPT ![r].pc = "ret",
                      ![r].ret = [deps |-> q[r].deps, err |-> NilErr]]
    /\ UNCHANGED <<gemDir, h, t>>

----------------------------------------------------------------------------
(* Callers of depQuery *)

\* net/http after the handler returns: an unwritten header goes out as 200
Finish(w) ==
    IF w.wroteHeader THEN w
    ELSE [w EXCEPT !.wroteHeader = TRUE, !.status = 200, !.sent = w.header]

\* ApiRequest without the early return on an empty parameter
ApiRequestNoGuard(r) ==
    /\ h[r].pc = "idle"
    /\ \E names \in NameLists :
         LET gems == Join(names)
         IN  /\ h' = [h EXCEPT ![r] = [IdleH EXCEPT !.kind = "deps", !.pc = "depQuery",
                                                    !.gems = gems]]
             /\ q' = [q EXCEPT ![r] = EnterDepQuery(Split(gems))]
    /\ UNCHANGED <<gemDir, gemDirLock, t>>

\* GET /api/v1/dependencies?gems=<names joined>: an empty parameter returns
\* at once, anything else calls depQuery(strings.Split(gems, ","))
ApiRequest(r) ==
    /\ h[r].pc = "idle"
    /\ \E names \in NameLists :
         LET gems == Join(names)
         IN  IF gems = ""
             THEN /\ h' = [h EXCEPT ![r] = [IdleH EXCEPT !.kind = "deps", !.pc = "done",
                                                         !.w = Finish(NewWriter)]]
                  /\ q' = q
             ELSE /\ h' = [h EXCEPT ![r] = [IdleH EXCEPT !.kind = "deps", !.pc = "depQuery",
                                                         !.gems = gems]]
                  /\ q' = [q EXCEPT ![r] = EnterDepQuery(Split(gems))]
    /\ UNCHANGED <<gemDir, gemDirLock, t>>

\* ApiRespond that encodes the result without looking at err
ApiRespondAlways(r) ==
    /\ h[r].kind = "deps"
    /\ h[r].pc = "depQuery"
    /\ q[r].pc = "ret"
    /\ h' = [h EXCEPT ![r].pc = "done",
                      ![r].w = Finish(Encode(h[r].w, q[r].ret.deps))]
    /\ UNCHANGED <<gemDir, gemDirLock, q, t>>

\* the handler after depQuery returned: 500 with the error text, or the
\* encoded records
ApiRespond(r) ==
    /\ h[r].kind = "deps"
    /\ h[r].pc = "depQuery"
    /\ q[r].pc = "ret"
    /\ LET result == q[r].ret.deps
           err    == q[r].ret.err
       IN  h' = [h EXCEPT ![r].pc = "done",
                          ![r].w = IF err # NilErr
                                   THEN Finish(HttpError(h[r].w, err, 500))
                                   ELSE Finish(Encode(h[r].w, result))]
    /\ UNCHANGED <<gemDir, gemDirLock, q, t>>

\* depQuery(names) called on its own
CallDepQuery(r) ==
    /\ h[r].pc = "idle"
    /\ \E names \in NameLists :
         /\ h' = [h EXCEPT ![r] = [IdleH EXCEPT !.kind = "call", !.pc = "depQuery"]]
         /\ q' = [q EXCEPT ![r] = EnterDepQuery(names)]
    /\ UNCHANGED <<gemDir, gemDirLock, t>>

CallReturn(r) ==
    /\ h[r].kind = "call"
    /\ h[r].pc = "depQuery"
    /\ q[r].pc = "ret"
    /\ h' = [h EXCEPT ![r].pc = "done"]
    /\ UNCHANGED <<gemDir, gemDirLock, q, t>>

----------------------------------------------------------------------------
(* GET /gems/<identity>.gem *)

\* gem := strings.TrimPrefix(r.URL.Path, "/gems/"); gemDirLock.RLock()
GemsRLock(r) ==
    /\ h[r].pc = "idle"
    /\ gemDirLock.writer = 0
    /\ \E id \in PathIds :
         h' = [h EXCEPT ![r] = [IdleH EXCEPT !.kind = "gems", !.pc = "read",
                                             !.gem = id \o ".gem"]]
    /\ gemDirLock' = [gemDirLock EXCEPT !.readers = gemDirLock.readers \cup {r}]
    /\ UNCHANGED <<gemDir, q, t>>

\* repo, found := gemDir[strings.TrimSuffix(gem, ".gem")]
GemsRead(r) ==
    /\ h[r].kind = "gems"
    /\ h[r].pc = "read"
    /\ LET key == TrimSuffix(h[r].gem)
       IN  h' = IF key \in DOMAIN gemDir
                THEN [h EXCEPT ![r].repo = gemDir[key], ![r].found = TRUE, ![r].pc = "runlock"]
                ELSE [h EXCEPT ![r].repo = NilRepo, ![r].found = FALSE, ![r].pc = "runlock"]
    /\ UNCHANGED <<gemDir, gemDirLock, q, t>>

\* gemDirLock.RUnlock(), then the rest of the handler
GemsRespond(r) ==
    /\ h[r].kind = "gems"
    /\ h[r].pc = "runlock"
    /\ gemDirLock' = [gemDirLock EXCEPT !.readers = gemDirLock.readers \ {r}]
    /\ LET w1 == IF ~h[r].found THEN WriteHeader(h[r].w, 404) ELSE h[r].w
           url == h[r].repo \o "gems/" \o h[r].gem
       IN  h' = [h EXCEPT ![r].pc = "done", ![r].w = Finish(Redirect(w1, url, 301))]
    /\ UNCHANGED <<gemDir, q, t>>

\* the request is over; the goroutine serves the next one
Reset(r) ==
    /\ h[r].pc = "done"
    /\ h' = [h EXCEPT ![r] = IdleH]
    /\ q' = [q EXCEPT ![r] = IdleQ]
    /\ t' = [t EXCEPT ![r] = [j \in Idx |-> IdleT]]
    /\ UNCHANGED <<gemDir, gemDirLock>>

----------------------------------------------------------------------------

\* the steps of a goroutine serving dependency queries
ApiStep(r, up) ==
    \/ ApiRequest(r)
    \/ ApiRespond(r)
    \/ CallDepQuery(r)
    \/ CallReturn(r)
    \/ DqLoop(r)
    \/ \E i \in Idx : TaskGet(r, i, up)
    \/ \E i \in Idx : TaskDecode(r, i)
    \/ \E i \in Idx : TaskLock(r, i)
    \/ \E i \in Idx : TaskStore(r, i)
    \/ \E i \in Idx : TaskUnlock(r, i)
    \/ \E i \in Idx : TaskDone(r, i)
    \/ DqWait(r)
    \/ DqMerge(r)
    \/ UpdateLock(r)
    \/ UpdateWrite(r)
    \/ UpdateUnlock(r)
    \/ Reset(r)

\* the steps of a goroutine serving downloads
GemStep(r) ==
    \/ GemsRLock(r)
    \/ GemsRead(r)
    \/ GemsRespond(r)
    \/ Reset(r)

Next ==
    \/ \E r \in ApiReqs : ApiStep(r, "any")
    \/ \E r \in GemReqs : GemStep(r)

Spec == Init /\ [][Next]_vars

\* the same program in front of upstreams with fixed content that never fail
NextFixed ==
    \/ \E r \in ApiReqs : ApiStep(r, "fixed")
    \/ \E r \in GemReqs : GemStep(r)

SpecFixed == Init /\ [][NextFixed]_vars

----------------------------------------------------------------------------
(* Scheduling *)

\* the program in front of upstreams with fixed content whose transport may
\* fail
NextLive ==
    \/ \E r \in ApiReqs : ApiStep(r, "flaky")
    \/ \E r \in GemReqs : GemStep(r)

\* every http.Get returns and the Go scheduler runs every runnable goroutine:
\* a step of depQuery, of its goroutines or of a handler past its first line
\* that stays possible is taken.  Requests arrive or not.  A writer waiting
\* in gemDirLock.Lock() gets the lock once it is free again and again
\* (sync.RWMutex lets no new reader pass a waiting writer).
Fairness ==
    /\ \A r \in ApiReqs :
          /\ WF_vars(DqLoop(r))
          /\ \A i \in Idx :
                /\ WF_vars(TaskGet(r, i, "flaky"))
                /\ WF_vars(TaskDecode(r, i))
                /\ WF_vars(TaskLock(r, i))
                /\ WF_vars(TaskStore(r, i))
                /\ WF_vars(TaskUnlock(r, i))
                /\ WF_vars(TaskDone(r, i))
          /\ WF_vars(DqWait(r))
          /\ WF_vars(DqMerge(r))
          /\ SF_vars(UpdateLock(r))
          /\ WF_vars(UpdateWrite(r))
          /\ WF_vars(UpdateUnlock(r))
    /\ \A g \in GemReqs :
          /\ WF_vars(GemsRead(g))
          /\ WF_vars(GemsRespond(g))

SpecLive == Init /\ [][NextLive]_vars /\ Fairness

----------------------------------------------------------------------------
(* Two dependency queries at a time *)

\* two goroutines serving one dependency request each, in front of upstreams
\* with fixed content whose transport may fail
PairApi == {1, 2}

InitPair ==
    /\ gemDir = <<>>
    /\ gemDirLock = [writer |-> 0, readers |-> {}]
    /\ h = [r \in PairApi |-> IdleH]
    /\ q = [r \in PairApi |-> IdleQ]
    /\ t = [r \in PairApi |-> [j \in Idx |-> IdleT]]

NextPair ==
    \E r \in PairApi :
        \/ ApiRequest(r)
        \/ ApiRespond(r)
        \/ DqLoop(r)
        \/ \E i \in Idx : TaskGet(r, i, "flaky")
        \/ \E i \in Idx : TaskDecode(r, i)
        \/ \E i \in Idx : TaskLock(r, i)
        \/ \E i \in Idx : TaskStore(r, i)
        \/ \E i \in Idx : TaskUnlock(r, i)
        \/ \E i \in Idx : TaskDone(r, i)
        \/ DqWait(r)
        \/ DqMerge(r)
        \/ UpdateLock(r)
        \/ UpdateWrite(r)
        \/ UpdateUnlock(r)

SpecPair == InitPair /\ [][NextPair]_vars

----------------------------------------------------------------------------
(* Two cache updates and a download at a time *)

\* goroutines that have each reached the end of a dependency query
LockApi == {1, 3}

LockReqs == LockApi \cup GemReqs

\* two queries just after wg.Wait(), every goroutine of both having
\* succeeded against the upstreams with fixed content; goroutine i queried
\* the repository the loop variable named when it ran
InitLock ==
    /\ gemDir = <<>>
    /\ gemDirLock = [writer |-> 0, readers |-> {}]
    /\ \E names \in [LockApi -> NameLists \ {<<>>}],
          from \in [LockApi -> [Idx -> Idx]] :
         /\ \A r \in LockApi, i \in Idx : from[r][i] >= i
         /\ LET all == [r \in LockApi |-> [i \in Idx |->
                          SetRepo(Answer(reposFlag[from[r][i]], names[r]),
                                  reposFlag[from[r][i]])]]
            IN  /\ h = [s \in LockReqs |->
                          IF s \in LockApi
                          THEN [IdleH EXCEPT !.kind = "deps", !.pc = "depQuery",
                                             !.gems = Join(names[s])]
                          ELSE IdleH]
                /\ q = [s \in LockReqs |->
                          IF s \in LockApi
                          THEN [EnterDepQuery(names[s]) EXCEPT
                                  !.pc = "merge", !.i = N + 1, !.repo = reposFlag[N],
                                  !.all = all[s]]
                          ELSE IdleQ]
                /\ t = [s \in LockReqs |-> [i \in Idx |->
                          IF s \in LockApi
                          THEN [IdleT EXCEPT !.pc = "fin",
                                             !.repo = reposFlag[from[s][i]],
                                             !.deps = all[s][i]]
                          ELSE IdleT]]

NextLock ==
    \/ \E r \in LockApi :
          \/ DqMerge(r)
          \/ UpdateLock(r)
          \/ UpdateWrite(r)
          \/ UpdateUnlock(r)
          \/ ApiRespond(r)
    \/ \E r \in GemReqs : GemStep(r)

SpecLock == InitLock /\ [][NextLock]_vars

----------------------------------------------------------------------------
(* The merge and the cache update over arbitrary slot contents *)

\* longest record list in one slot
MaxSlot == 2

\* records with two names, among them two records with the same ident
MergeGems ==
    { [Name |-> "a", Version |-> "1",   Platform |-> "x",    Dependencies |-> <<>>],
      [Name |-> "a", Version |-> "1-x", Platform |-> "ruby", Dependencies |-> <<>>],
      [Name |-> "b", Version |-> "1",   Platform |-> "ruby", Dependencies |-> <<>>] }

\* the first query of a fresh process, just after wg.Wait(): every goroutine
\* has succeeded and filled its slot; goroutine i queried the repository the
\* loop variable named when it ran, reposFlag[i] or a later one
InitMerge ==
    /\ gemDir = <<>>
    /\ gemDirLock = [writer |-> 0, readers |-> {}]
    /\ \E r \in ApiReqs, lists \in [Idx -> SeqsUpTo(MergeGems, MaxSlot)],
          from \in [Idx -> Idx] :
         /\ \A i \in Idx : from[i] >= i
         /\ LET all == [i \in Idx |-> SetRepo(lists[i], reposFlag[from[i]])]
            IN  /\ h = [s \in Reqs |->
                          IF s = r
                          THEN [IdleH EXCEPT !.kind = "deps", !.pc = "depQuery",
                                             !.gems = "a,b"]
                          ELSE IdleH]
                /\ q = [s \in Reqs |->
                          IF s = r
                          THEN [EnterDepQuery(Split("a,b")) EXCEPT
                                  !.pc = "merge", !.i = N + 1, !.repo = reposFlag[N],
                                  !.all = all]
                          ELSE IdleQ]
                /\ t = [s \in Reqs |-> [i \in Idx |->
                          IF s = r
                          THEN [IdleT EXCEPT !.pc = "fin", !.repo = reposFlag[from[i]],
                                             !.deps = all[i]]
                          ELSE IdleT]]

NextMerge ==
    \E r \in ApiReqs :
        \/ DqMerge(r)
        \/ UpdateLock(r)
        \/ UpdateWrite(r)
        \/ UpdateUnlock(r)
        \/ ApiRespond(r)

SpecMerge == InitMerge /\ [][NextMerge]_vars

----------------------------------------------------------------------------
(* Properties *)

Idents(list) == { ident(list[k]) : k \in DOMAIN list }

\* the first record of list with the identity id
FirstWith(list, id) ==
    list[CHOOSE k \in DOMAIN list :
            /\ ident(list[k]) = id
            /\ \A m \in DOMAIN list : ident(list[m]) = id => k <= m]

\* the highest-priority slot holding the identity id
FirstSlot(all, id) ==
    CHOOSE i \in Idx : /\ id \in Idents(all[i])
                       /\ \A m \in Idx : id \in Idents(all[m]) => i <= m

\* depQuery of request r has computed the merged list
HasMerged(r) == q[r].pc \in {"update", "write"} \/ (q[r].pc = "ret" /\ q[r].ret.err = NilErr)

\* a goroutine of request r whose loadDependencies returned an error
SomeFailed(r) == \E i \in Idx : t[r][i].err # NilErr

AllFinished(r) == \A i \in Idx : t[r][i].pc = "fin"

\* C1 (merge dedup): an identity that occurs in slot i and in slot j, i < j,
\* occurs in exactly one record of the merged list, and that record is the
\* first one with that identity in the highest-priority slot holding it
\* (slot i when there are two repositories).  Identity is the canonical
\* string that ident computes.
MergeDedup ==
    \A r \in ApiReqs :
        HasMerged(r) =>
            \A i \in Idx, j \in Idx :
                i < j =>
                    \A id \in Idents(q[r].all[i]) \cap Idents(q[r].all[j]) :
                        LET hits == { k \in DOMAIN q[r].deps : ident(q[r].deps[k]) = id }
                            src  == FirstSlot(q[r].all, id)
                        IN  /\ Cardinality(hits) = 1
                            /\ \A k \in hits :
                                 q[r].deps[k] = FirstWith(q[r].all[src], id)

MergeDedupWitness ==
    \E r \in ApiReqs :
        /\ q[r].pc = "ret"
        /\ q[r].ret.err = NilErr
        /\ Len(q[r].ret.deps) = 2
        /\ Idents(q[r].all[1]) \cap Idents(q[r].all[2]) # {}
        /\ Len(q[r].all[1]) = 2
        /\ Len(q[r].all[2]) = 2
        /\ q[r].all[1][1].repo # q[r].all[2][1].repo

\* C2 (completion-order independence), over upstreams with fixed content that
\* never fail: whatever the schedule, a returned depQuery yields the merge of
\* the repositories' answers in configured order, each answer tagged with
\* its repository.
OrderIndependent ==
    \A r \in ApiReqs :
        (q[r].pc = "ret" /\ q[r].ret.err = NilErr) =>
            q[r].ret.deps =
                mergeDependencies(
                    [i \in Idx |-> SetRepo(Answer(reposFlag[i], q[r].gems), reposFlag[i])])

\* C3 (one invocation per repository into its own slot): the query goroutine
\* i issues goes to repository i, and slot i holds records tagged with
\* repository i.
OwnRepoOwnSlot ==
    \A r \in ApiReqs, i \in Idx :
        /\ t[r][i].pc \notin {"off", "get"} => t[r][i].repo = reposFlag[i]
        /\ \A k \in DOMAIN q[r].all[i] : q[r].all[i][k].repo = reposFlag[i]

\* C4 (fail-fast): a depQuery one of whose invocations failed returns an error
\* and no records, and the cache changes only in a step of a call all of
\* whose invocations finished without error.
FailFast ==
    /\ [](\A r \in ApiReqs :
            (q[r].pc = "ret" /\ SomeFailed(r)) =>
                (q[r].ret.err # NilErr /\ q[r].ret.deps = <<>>))
    /\ [][gemDir' # gemDir =>
            \E r \in ApiReqs : /\ gemDirLock.writer = r
                               /\ AllFinished(r)
                               /\ ~SomeFailed(r)]_vars

FailFastWitness ==
    \E r \in ApiReqs :
        /\ q[r].pc = "ret"
        /\ q[r].ret.err # NilErr
        /\ \E i \in Idx : t[r][i].err # NilErr
        /\ \E i \in Idx : t[r][i].err = NilErr /\ Len(q[r].all[i]) > 0

\* C5 (cache write-through): when the first depQuery of a process returns
\* without error, the keys of the cache are the identities of the merged
\* records and each key maps to the repository of its merged record.
WriteThrough ==
    \A r \in ApiReqs :
        (q[r].pc = "ret" /\ q[r].ret.err = NilErr) =>
            /\ DOMAIN gemDir = Idents(q[r].ret.deps)
            /\ \A k \in DOMAIN q[r].ret.deps :
                 gemDir[ident(q[r].ret.deps[k])] = q[r].ret.deps[k].repo

WriteThroughWitness ==
    \E r \in ApiReqs :
        /\ q[r].pc = "ret"
        /\ q[r].ret.err = NilErr
        /\ Len(q[r].ret.deps) = 2
        /\ Cardinality(DOMAIN gemDir) = 2
        /\ \E k1 \in DOMAIN gemDir, k2 \in DOMAIN gemDir : gemDir[k1] # gemDir[k2]

\* the identity a /gems/ request names
RequestedId(r) == CHOOSE id \in PathIds : h[r].gem = id \o ".gem"

\* C6 (redirect correctness): the lookup of GET /gems/<identity>.gem finds
\* exactly the keys of the cache; a found identity is answered 301 with
\* Location <repository>gems/<identity>.gem, an absent one with status 404.
RedirectCorrect ==
    \A r \in GemReqs :
        /\ h[r].pc = "runlock" =>
             /\ h[r].found <=> RequestedId(r) \in DOMAIN gemDir
             /\ h[r].found => h[r].repo = gemDir[RequestedId(r)]
        /\ h[r].pc = "done" =>
             IF h[r].found
             THEN /\ h[r].w.status = 301
                  /\ h[r].repo \in Range(reposFlag)
                  /\ h[r].w.sent = h[r].repo \o "gems/" \o RequestedId(r) \o ".gem"
             ELSE h[r].w.status = 404

RedirectCorrectWitness ==
    \E r \in GemReqs :
        /\ h[r].pc = "done"
        /\ h[r].found
        /\ h[r].w.status = 301
        /\ h[r].w.sent = "http://b/gems/a-1-x.gem"

\* C7 (join before return): from the return of wg.Wait() on, and so at every
\* return of depQuery, all goroutines of the call have finished.
JoinBeforeReturn ==
    \A r \in ApiReqs :
        q[r].pc \in {"merge", "update", "write", "ret"} =>
            (AllFinished(r) /\ q[r].wg = 0)

JoinBeforeReturnWitness ==
    \E r \in ApiReqs :
        /\ q[r].pc = "ret"
        /\ q[r].ret.err # NilErr
        /\ AllFinished(r)
        /\ \E i \in Idx : t[r][i].err = NilErr

EmptyParamWitness ==
    \E r \in ApiReqs :
        /\ h[r].kind = "deps"
        /\ h[r].gems = ""
        /\ h[r].pc = "done"
        /\ gemDir # <<>>

\* C9 (failure on a non-success status): decoding a response whose status is
\* not 200 leaves loadDependencies with an error.
NonSuccessFails ==
    [][\A r \in ApiReqs, i \in Idx :
         (t[r][i].pc = "decode" /\ t[r][i].res.status # 200 /\ t'[r][i].pc = "lock")
            => t'[r][i].err # NilErr]_vars

\* the response carries encoded records
Carries(w) == \E k \in DOMAIN w.body : w.body[k][1] = "marshal"

\* C10 (no partial success at the API): a dependency request one of whose
\* upstream invocations failed is answered 500 with no encoded records; a
\* response with encoded records comes only after every invocation succeeded.
NoPartialSuccess ==
    \A r \in ApiReqs :
        (h[r].kind = "deps" /\ h[r].pc = "done" /\ h[r].gems # "") =>
            /\ SomeFailed(r) => (h[r].w.status = 500 /\ ~Carries(h[r].w))
            /\ Carries(h[r].w) => (AllFinished(r) /\ ~SomeFailed(r))

NoPartialSuccessWitness ==
    \E r \in ApiReqs :
        /\ h[r].kind = "deps"
        /\ h[r].pc = "done"
        /\ h[r].w.status = 500
        /\ \E i \in Idx : t[r][i].err # NilErr
        /\ \E i \in Idx : t[r][i].err = NilErr /\ Len(q[r].all[i]) > 0

\* C11 (the cache only grows): no step removes a key of the cache.
CacheOnlyGrows ==
    [][DOMAIN gemDir \subseteq DOMAIN gemDir']_vars

CacheOnlyGrowsWitness ==
    \E r \in ApiReqs :
        /\ q[r].pc = "write"
        /\ q[r].k = 2
        /\ Len(q[r].deps) = 1
        /\ Cardinality(DOMAIN gemDir) = 2
        /\ \E g \in GemReqs : h[g].pc = "done" /\ h[g].found

\* the records an update in progress has written so far
Written(r) == { q[r].deps[j] : j \in 1..(q[r].k - 1) }

\* C12 (unconditional overwrite, last merge wins): every record an update has
\* gone over is mapped to that record's repository whatever the key held
\* before, so when the update releases the lock the cache maps each of its
\* identities to the repository of its record; a step changes no key other
\* than the one of the record it writes.
LastMergeWins ==
    /\ [](\A r \in ApiReqs :
            q[r].pc = "write" =>
                \A d \in Written(r) :
                    /\ ident(d) \in DOMAIN gemDir
                    /\ gemDir[ident(d)] = d.repo)
    /\ [][\A r \in ApiReqs :
            (q[r].pc = "write" /\ q[r].k <= Len(q[r].deps)) =>
                \A key \in DOMAIN gemDir :
                    key # ident(q[r].deps[q[r].k]) =>
                        (key \in DOMAIN gemDir' /\ gemDir'[key] = gemDir[key])]_vars

\* an update that has written its first record and is about to replace the
\* repository an earlier query gave the second one
LastMergeWinsWitness ==
    \E r \in ApiReqs :
        /\ q[r].pc = "write"
        /\ q[r].k = 2
        /\ Len(q[r].deps) = 2
        /\ ident(q[r].deps[2]) \in DOMAIN gemDir
        /\ gemDir[ident(q[r].deps[2])] # q[r].deps[2].repo

\* the slots' lists one after the other, slot 1 first
RECURSIVE Concatenation(_, _)
Concatenation(all, n) ==
    IF n = 0 THEN <<>> ELSE Concatenation(all, n - 1) \o all[n]

\* s without every record whose identity occurs earlier in s
RECURSIVE WithoutRepeats(_, _)
WithoutRepeats(s, n) ==
    IF n = 0 THEN <<>>
    ELSE IF \E m \in 1..(n - 1) : ident(s[m]) = ident(s[n])
         THEN WithoutRepeats(s, n - 1)
         ELSE Append(WithoutRepeats(s, n - 1), s[n])

\* C13 (merge output order): the merged list is the concatenation of the
\* slots in priority order without the records whose identity occurred
\* earlier in it, and no identity occurs twice in the merged list.
MergeOrder ==
    \A r \in ApiReqs :
        HasMerged(r) =>
            LET cat == Concatenation(q[r].all, N)
            IN  /\ q[r].deps = WithoutRepeats(cat, Len(cat))
                /\ \A k \in DOMAIN q[r].deps, m \in DOMAIN q[r].deps :
                     ident(q[r].deps[k]) = ident(q[r].deps[m]) => k = m

\* slot 1 repeats an identity and slot 2 brings one known and one new record
MergeOrderWitness ==
    \E r \in ApiReqs :
        /\ q[r].pc = "ret"
        /\ Len(q[r].all[1]) = 2
        /\ ident(q[r].all[1][1]) = ident(q[r].all[1][2])
        /\ Len(q[r].all[2]) = 2
        /\ ident(q[r].all[2][1]) = ident(q[r].all[1][1])
        /\ q[r].ret.deps = <<q[r].all[1][1], q[r].all[2][2]>>

\* goroutine i of request r has left the section under mu
PastSection(r, i) == t[r][i].pc \in {"unlock", "done", "fin"}

\* C14 (first observed failure): repoErr is set once, by the first failing
\* goroutine that runs the section under mu and to that goroutine's error;
\* no later step of the call changes or clears it, and it is the error
\* depQuery returns.
FirstFailure ==
    /\ [](\A r \in ApiReqs :
            (q[r].pc = "ret" /\ SomeFailed(r)) =>
                (q[r].repoErr # NilErr /\ q[r].ret.err = q[r].repoErr))
    /\ [][\A r \in ApiReqs :
            (q[r].repoErr # NilErr /\ q'[r].pc # "off") =>
                q'[r].repoErr = q[r].repoErr]_vars
    /\ [][\A r \in ApiReqs :
            (q[r].repoErr = NilErr /\ q'[r].repoErr # NilErr) =>
                /\ q[r].mu \in Idx
                /\ t[r][q[r].mu].pc = "crit"
                /\ q'[r].repoErr = t[r][q[r].mu].err
                /\ \A j \in Idx : PastSection(r, j) => t[r][j].err = NilErr]_vars

\* two goroutines failed with different errors, the one of goroutine 2 stands
FirstFailureWitness ==
    \E r \in ApiReqs :
        /\ q[r].pc = "ret"
        /\ t[r][1].err # NilErr
        /\ t[r][2].err # NilErr
        /\ t[r][1].err # t[r][2].err
        /\ q[r].ret.err = t[r][2].err

\* the goroutines inside the read section of the /gems/ handler
Looking == { g \in DOMAIN h : h[g].kind = "gems" /\ h[g].pc \in {"read", "runlock"} }

\* the goroutines inside the loop of updateGemDir
Updating == { r \in DOMAIN q : q[r].pc = "write" }

\* C15: cache locking. A goroutine is inside the loop of updateGemDir exactly
\* when it holds gemDirLock exclusively, and inside the lookup of the /gems/
\* handler exactly when it holds gemDirLock shared; the two never overlap and
\* at most one goroutine updates. The cache changes only in a step of the
\* holder of the exclusive lock, and not at all while a lookup is under way,
\* so a lookup sees the cache as it is before or after a whole update.
CacheLocking ==
    /\ [](/\ Updating = IF gemDirLock.writer = 0 THEN {} ELSE {gemDirLock.writer}
          /\ Looking = gemDirLock.readers
          /\ Cardinality(Updating) <= 1
          /\ (Updating = {} \/ Looking = {}))
    /\ [][gemDir' # gemDir =>
            /\ gemDirLock.writer # 0
            /\ gemDirLock.readers = {}
            /\ q'[gemDirLock.writer].k = q[gemDirLock.writer].k + 1
            /\ \A r \in DOMAIN q \ {gemDirLock.writer} : q'[r] = q[r]]_vars
    /\ [][Looking # {} => gemDir' = gemDir]_vars

\* a lookup has found an entry of the first update while the second update,
\* which had to wait, is halfway through its two writes
CacheLockingWitness ==
    \E r1, r2 \in LockApi, g \in GemReqs :
        /\ r1 # r2
        /\ q[r1].pc = "ret"
        /\ q[r2].pc = "write" /\ q[r2].k = 2 /\ Len(q[r2].deps) = 2
        /\ gemDirLock.writer = r2
        /\ h[g].pc = "done" /\ h[g].found

\* what depQuery of request r returns when nothing but its own goroutines'
\* loadDependencies results enter it
Alone(r) ==
    IF SomeFailed(r)
    THEN { [deps |-> <<>>, err |-> t[r][i].err] : i \in { j \in Idx : t[r][j].err # NilErr } }
    ELSE { [deps |-> mergeDependencies([i \in Idx |-> t[r][i].deps]), err |-> NilErr] }

\* the list a finished updateGemDir of request r has written
Update(r) ==
    IF q[r].pc = "ret" /\ q[r].ret.err = NilErr THEN q[r].ret.deps ELSE <<>>

\* the cache m after a whole updateGemDir(deps)
RECURSIVE Applied(_, _, _)
Applied(m, deps, n) ==
    IF n = 0 THEN m
    ELSE MapSet(Applied(m, deps, n - 1), gemDirKey(deps[n]), deps[n].repo)

\* C16: isolation of concurrent queries. With two depQuery calls under way,
\* what each returns is what it returns alone on the results of its own
\* goroutines; a step that changes the slots, the error or the merged list
\* of one call leaves the other call untouched; and whenever no update is in
\* progress the cache is the one left by the finished updates applied whole,
\* one after the other, in one of the two orders.
Isolation ==
    /\ [](\A r \in PairApi : q[r].pc = "ret" => q[r].ret \in Alone(r))
    /\ [](gemDirLock.writer = 0 =>
            \E r1, r2 \in PairApi :
                /\ r1 # r2
                /\ gemDir = Applied(Applied(<<>>, Update(r1), Len(Update(r1))),
                                    Update(r2), Len(Update(r2))))
    /\ [][\A r, c \in PairApi :
            (r # c /\ (q'[r].all # q[r].all \/ q'[r].repoErr # q[r].repoErr
                          \/ q'[r].deps # q[r].deps))
            => (q'[c] = q[c] /\ t'[c] = t[c])]_vars

\* both calls have returned different lists for the same identity, and the
\* update that ran second decided the cache entry
IsolationWitness ==
    \E r1, r2 \in PairApi :
        /\ r1 # r2
        /\ q[r1].pc = "ret" /\ q[r1].ret.err = NilErr
        /\ q[r2].pc = "ret" /\ q[r2].ret.err = NilErr
        /\ \E d1 \in Range(q[r1].ret.deps), d2 \in Range(q[r2].ret.deps) :
              /\ ident(d1) = ident(d2)
              /\ d1.repo # d2.repo
              /\ gemDir[ident(d1)] = d2.repo

\* the highest-priority repository whose fixed content has the identity id
FirstHolder(id) ==
    reposFlag[CHOOSE i \in Idx :
                /\ id \in Idents(Holds(reposFlag[i]))
                /\ \A m \in Idx : id \in Idents(Holds(reposFlag[m])) => i <= m]

\* C17 (cache agrees with merge priority), over upstreams with fixed content
\* that never fail: every entry of the cache maps its identity to the first
\* repository in configured order that holds a record with that identity.
CachePriority ==
    \A key \in DOMAIN gemDir :
        /\ \E i \in Idx : key \in Idents(Holds(reposFlag[i]))
        /\ gemDir[key] = FirstHolder(key)

\* C18: single outcome on the redirect path. A finished /gems/ request has
\* made one attempt to write a status, 301 or 404; for an identity absent
\* from the cache it has set no Location target and has not attempted a 301.
SingleOutcome ==
    \A g \in GemReqs :
        (h[g].kind = "gems" /\ h[g].pc = "done") =>
            /\ h[g].w.calls \in {<<301>>, <<404>>}
            /\ ~h[g].found =>
                  /\ h[g].w.header = ""
                  /\ 301 \notin Range(h[g].w.calls)

\* C19: termination. With every upstream call returning and fair scheduling,
\* every depQuery call that has started returns; when the caller is past
\* wg.Wait() the counter is zero, mu is free and every goroutine has ended,
\* whether it succeeded or failed.
Termination ==
    /\ \A r \in ApiReqs : (q[r].pc = "loop") ~> (q[r].pc = "ret")
    /\ [](\A r \in ApiReqs :
            q[r].pc \in {"merge", "update", "write", "ret"} =>
                /\ q[r].wg = 0
                /\ q[r].mu = 0
                /\ \A i \in Idx : t[r][i].pc = "fin")

\* depQuery has returned the error of one goroutine while the other one
\* succeeded; both have released mu and ended
TerminationWitness ==
    \E r \in ApiReqs :
        /\ q[r].pc = "ret"
        /\ q[r].ret.err # NilErr
        /\ \E i, j \in Idx : t[r][i].err # NilErr /\ t[r][j].err = NilErr
                              /\ t[r][j].deps # <<>>
        /\ q[r].mu = 0 /\ q[r].wg = 0
        /\ \A i \in Idx : t[r][i].pc = "fin"
====
